---- MODULE Spec2Model ----
(***************************************************************************)
(* Identity and subscription core of the capi backend: the account record *)
(* (credential, subscription status, trial expiry, next billing, invoice  *)
(* ledger) and the request handlers of src/server.js that read and write  *)
(* it.  src/server.js holds two revisions of the server: the Prisma one   *)
(* (lines 1-823) and the Mongoose one (lines 825-2127).  The variable rev *)
(* says which revision is deployed; each handler is an action of its      *)
(* revision.                                                               *)
(***************************************************************************)
EXTENDS Integers, Sequences, FiniteSets, TLC

VARIABLES
    rev,      \* deployed revision of src/server.js: "mongoose" or "prisma"
    users,    \* the user collection/table: email -> stored account record
    now,      \* the clock (new Date()), in days
    resp,     \* the response of the last request handled
    inflight, \* requests that have read their user and not yet written
    key,      \* process.env.ENCRYPTION_KEY of the running process
    ents,     \* entities with sensitive fields: id -> stored record
    view,     \* the last codec call or field request and what it returned
    pg        \* the Postgres tables the migration script writes

vars == <<rev, users, now, resp, inflight, key, ents, view, pg>>

----------------------------------------------------------------------------
(* Bounds of the model *)

\* the clock stops advancing here
MaxTime == 3
\* handlers that append an invoice are not started on a ledger this long
MaxInvoices == 2
\* requests handled at the same time
MaxInflight == 2
\* entities with sensitive fields that are stored
MaxEnts == 2

(* Program constants *)

\* trialEnd.setDate(now.getDate() + 2)
TrialDays == 2
\* nextBilling.setDate(nextBilling.getDate() + 30)
BillingDays == 30
\* nextBilling.setMonth(nextBilling.getMonth() + 1): one calendar month, in days
MonthDays == 30
\* bcryptjs: a hash is 60 characters, its first 29 are version, cost and salt
BcryptHashLen == 60
BcryptSaltLen == 29
BcryptDigestLen == 31

\* JavaScript null / undefined of a Date field
Null == -1

Revisions == {"mongoose", "prisma"}

\* the accounts of the model; Ghost is an email no account ever has
Emails == {"ana@capi.com"}
Ghost == "ghost@capi.com"
AnyEmail == Emails \cup {Ghost}

----------------------------------------------------------------------------
(* Strings *)

StartsWith(s, p) == Len(s) >= Len(p) /\ SubSeq(s, 1, Len(p)) = p

CharAt(s, i) == IF i <= Len(s) THEN SubSeq(s, i, i) ELSE ""

(* bcryptjs, as the handlers use it.  The per-call random salt is one     *)
(* fixed salt here; the digest of a password is the password itself,      *)
(* cut or padded to the digest's length.                                  *)

BcryptSalt == "$2a$10$abcdefghijklmnopqrstuv"

DigestPad == "..............................."

BcryptDigest(s) ==
    IF Len(s) >= BcryptDigestLen
    THEN SubSeq(s, 1, BcryptDigestLen)
    ELSE s \o SubSeq(DigestPad, 1, BcryptDigestLen - Len(s))

\* bcrypt.hash(s, salt)
BcryptHash(s, salt) == salt \o BcryptDigest(s)

\* bcryptjs _hash: "Invalid salt version" / "Invalid salt revision"
ValidSalt(salt) ==
    /\ CharAt(salt, 1) = "$"
    /\ CharAt(salt, 2) = "2"
    /\ \/ CharAt(salt, 3) = "$"
       \/ /\ CharAt(salt, 3) \in {"a", "b", "y"}
          /\ CharAt(salt, 4) = "$"

\* bcrypt.compare(s, hash): "true", "false", or "throw" (the promise rejects)
BcryptCompare(s, hash) ==
    IF Len(hash) # BcryptHashLen THEN "false"
    ELSE LET salt == SubSeq(hash, 1, BcryptSaltLen) IN
         IF ~ValidSalt(salt) THEN "throw"
         ELSE IF BcryptHash(s, salt) = hash THEN "true" ELSE "false"

\* passwords a client may send: an ordinary one, a second one, a short one
\* that begins with "$2", and a 60-character one that begins with "$2"
Senha == "senha123"
Outra == "outra456"
Dollar2Short == "$2curta1"
Dollar2Long == "$2x$01234567890123456789012345678901234567890123456789012345"
Passwords == {Senha, Outra, Dollar2Short, Dollar2Long}

\* Math.random().toString(36): the password of an account made by Google sign-up
RandomPassword == "0.k3j9x2m1q"

----------------------------------------------------------------------------
(* Field codec (src/utils/encryption.js): text is a string, a Buffer is a *)
(* sequence of bytes.  Strings become bytes by their character codes and  *)
(* bytes become hex text and back the way Buffer does it.  The block      *)
(* cipher is a keyed byte substitution chained as CBC with PKCS#7         *)
(* padding: like AES it is inverted by the same key only, and the padding *)
(* check of final() is what notices a wrong key.                          *)

\* IV_LENGTH
IV_LENGTH == 16
\* the block of 'aes-256-cbc', in bytes
BlockSize == 16
\* the key of 'aes-256-cbc', in bytes
KeyLength == 32
\* a byte takes 256 values
ByteRange == 256

\* JavaScript null / undefined of a string field
Nil == "<null>"
\* an exception thrown to the caller
Thrown == "<throw>"

\* !text
Falsy(text) == text = "" \/ text = Nil

\* the characters of text, with their codes
Ascii1 == " !"
Ascii2 == "#$%&'()*+,-./0123456789:;<=>?@ABCDEFGHIJKLMNOPQRSTUVWXYZ["
Ascii3 == "]^_"
Ascii4 == "abcdefghijklmnopqrstuvwxyz{|}~"

IndexOf(s, c) ==
    IF \E i \in 1 .. Len(s) : CharAt(s, i) = c
    THEN CHOOSE i \in 1 .. Len(s) : CharAt(s, i) = c
    ELSE 0

\* the code of every character of text
CharCodes ==
    [c \in {CharAt(Ascii1, i) : i \in 1 .. Len(Ascii1)} |-> 31 + IndexOf(Ascii1, c)]
    @@ [c \in {CharAt(Ascii2, i) : i \in 1 .. Len(Ascii2)} |-> 34 + IndexOf(Ascii2, c)]
    @@ [c \in {CharAt(Ascii3, i) : i \in 1 .. Len(Ascii3)} |-> 92 + IndexOf(Ascii3, c)]
    @@ [c \in {CharAt(Ascii4, i) : i \in 1 .. Len(Ascii4)} |-> 96 + IndexOf(Ascii4, c)]

\* the byte of a character (Buffer.from(text) of cipher.update)
CharCode(c) == CharCodes[c]

\* the character of every byte (Buffer.toString()); a byte that is no
\* character of text decodes to the replacement character, written "?"
CodeChars ==
    [b \in 0 .. ByteRange - 1 |->
       IF b \in 32 .. 33 THEN CharAt(Ascii1, b - 31)
       ELSE IF b \in 35 .. 91 THEN CharAt(Ascii2, b - 34)
       ELSE IF b \in 93 .. 95 THEN CharAt(Ascii3, b - 92)
       ELSE IF b \in 97 .. 126 THEN CharAt(Ascii4, b - 96)
       ELSE "?"]

CodeChar(b) == CodeChars[b]

Utf8Bytes(s) == [i \in 1 .. Len(s) |-> CharCode(CharAt(s, i))]

RECURSIVE Utf8String(_)
Utf8String(bytes) ==
    IF bytes = << >> THEN "" ELSE CodeChar(Head(bytes)) \o Utf8String(Tail(bytes))

HexDigits == "0123456789abcdef"
HexUpper  == "0123456789ABCDEF"

\* the value of every hex digit
HexVals ==
    [c \in {CharAt(HexDigits, i) : i \in 1 .. 16} |-> IndexOf(HexDigits, c) - 1]
    @@ [c \in {CharAt(HexUpper, i) : i \in 1 .. 16} |-> IndexOf(HexUpper, c) - 1]

IsHex(c) == c \in DOMAIN HexVals

HexVal(c) == HexVals[c]

\* the two hex digits of every byte
HexBytes ==
    [b \in 0 .. ByteRange - 1 |->
       CharAt(HexDigits, (b \div 16) + 1) \o CharAt(HexDigits, (b % 16) + 1)]

\* buffer.toString('hex')
RECURSIVE HexEncode(_)
HexEncode(bytes) ==
    IF bytes = << >> THEN "" ELSE HexBytes[Head(bytes)] \o HexEncode(Tail(bytes))

\* Buffer.from(s, 'hex'): the bytes of the leading pairs of hex digits; it
\* stops, without an error, at the first pair that is not hex
HexDecode(s) ==
    LET pairs == Len(s) \div 2
        good(j) == IsHex(CharAt(s, 2 * j - 1)) /\ IsHex(CharAt(s, 2 * j))
        bad   == {j \in 1 .. pairs : ~good(j)}
        n     == IF bad = {} THEN pairs
                 ELSE (CHOOSE j \in bad : \A h \in bad : j <= h) - 1
    IN  [j \in 1 .. n |-> 16 * HexVal(CharAt(s, 2 * j - 1)) + HexVal(CharAt(s, 2 * j))]

\* text.includes(c)
Includes(s, c) == IndexOf(s, c) > 0

\* text.trim()
RECURSIVE TrimLeft(_)
TrimLeft(s) ==
    IF Len(s) > 0 /\ CharAt(s, 1) = " " THEN TrimLeft(SubSeq(s, 2, Len(s))) ELSE s

RECURSIVE TrimRight(_)
TrimRight(s) ==
    IF Len(s) > 0 /\ CharAt(s, Len(s)) = " " THEN TrimRight(SubSeq(s, 1, Len(s) - 1)) ELSE s

Trim(s) == TrimRight(TrimLeft(s))

\* PKCS#7: n bytes of value n, n = 1 .. BlockSize
Pad(bytes) ==
    LET n == BlockSize - (Len(bytes) % BlockSize)
    IN  bytes \o [i \in 1 .. n |-> n]

ValidPad(bytes) ==
    /\ Len(bytes) > 0
    /\ LET n == bytes[Len(bytes)]
       IN  /\ n \in 1 .. BlockSize
           /\ \A i \in (Len(bytes) - n + 1) .. Len(bytes) : bytes[i] = n

\* Unpad with the padding left in place (setAutoPadding(false))
UnpadKept(bytes) == bytes

Unpad(bytes) == SubSeq(bytes, 1, Len(bytes) - bytes[Len(bytes)])

\* the substitution of the i-th byte of a block under the key
KeyByte(k, i) == (k[i] + 3 * k[i + BlockSize]) % ByteRange

\* CBC: each block is combined with the block before it (the IV at first)
\* and then substituted under the key
RECURSIVE CbcEncrypt(_, _, _)
CbcEncrypt(k, prev, bytes) ==
    IF bytes = << >> THEN << >>
    ELSE LET c == [i \in 1 .. BlockSize |->
                     (bytes[i] + prev[i] + KeyByte(k, i)) % ByteRange]
         IN  c \o CbcEncrypt(k, c, SubSeq(bytes, BlockSize + 1, Len(bytes)))

RECURSIVE CbcDecrypt(_, _, _)
CbcDecrypt(k, prev, bytes) ==
    IF bytes = << >> THEN << >>
    ELSE LET c == SubSeq(bytes, 1, BlockSize)
             p == [i \in 1 .. BlockSize |->
                     (c[i] + 2 * ByteRange - prev[i] - KeyByte(k, i)) % ByteRange]
         IN  p \o CbcDecrypt(k, c, SubSeq(bytes, BlockSize + 1, Len(bytes)))

\* values of process.env.ENCRYPTION_KEY: the key in use, another key (the
\* key was rotated), none, and one of half the length
GoodKey  == "000102030405060708090a0b0c0d0e0f101112131415161718191a1b1c1d1e1f"
OtherKey == "f0e1d2c3b4a5968778695a4b3c2d1e0f00112233445566778899aabbccddeeff"
NoKey    == ""
ShortKey == "000102030405060708090a0b0c0d0e0f"
EnvKeys  == {GoodKey, OtherKey, NoKey, ShortKey}

\* Key = Buffer.from(process.env.ENCRYPTION_KEY || '', 'hex'), read once
KeyBuffers == [env \in EnvKeys |-> HexDecode(env)]

KeyOf(env) == KeyBuffers[env]

\* encrypt(text) under the configured key, iv being crypto.randomBytes(IV_LENGTH);
\* createCipheriv throws on a key that is not KeyLength bytes
encrypt(text, env, iv) ==
    IF Falsy(text) THEN text
    ELSE IF Len(KeyOf(env)) # KeyLength THEN Thrown
    ELSE HexEncode(iv) \o ":" \o HexEncode(CbcEncrypt(KeyOf(env), iv, Pad(Utf8Bytes(text))))

\* decrypt whose catch answers null instead of the text
decryptOrNull(text, env) ==
    IF Falsy(text) THEN text
    ELSE IF ~Includes(text, ":") THEN text
    ELSE Nil

\* decrypt(text) under the configured key: whatever createDecipheriv,
\* update or final throw is caught and the text is returned as it is
decrypt(text, env) ==
    IF Falsy(text) THEN text
    ELSE IF ~Includes(text, ":") THEN text
    ELSE LET at == IndexOf(text, ":")
             iv == HexDecode(SubSeq(text, 1, at - 1))
             ct == HexDecode(SubSeq(text, at + 1, Len(text)))
         IN  IF Len(KeyOf(env)) # KeyLength \/ Len(iv) # IV_LENGTH THEN text
             ELSE IF ct = << >> \/ Len(ct) % BlockSize # 0 THEN text
             ELSE LET p == CbcDecrypt(KeyOf(env), iv, ct)
                  IN  IF ValidPad(p) THEN Utf8String(Unpad(p)) ELSE text

\* crypto.createHash('sha256').update(s).digest('hex'): the digest of s,
\* written as a term; two texts have the same digest only if they are equal
Sha256Hex(s) == "sha256(" \o s \o ")"

\* hashField without the trim
hashFieldUntrimmed(text) ==
    IF Falsy(text) THEN text ELSE Sha256Hex(text)

\* hashField(text)
hashField(text) ==
    IF Falsy(text) THEN text ELSE Sha256Hex(Trim(text))

\* values of crypto.randomBytes(IV_LENGTH)
IVs == { [i \in 1 .. IV_LENGTH |-> (7 * i) % ByteRange],
         [i \in 1 .. IV_LENGTH |-> (250 - 11 * i) % ByteRange] }

----------------------------------------------------------------------------
(* The account record *)

Statuses == {"FREE", "TRIAL", "ACTIVE", "PENDING", "CANCELED"}

\* an invoice of the ledger: ref is the payment reference the record carries
\* (Mongoose: its id; Prisma: the payment id its url ends with)
Invoice(ref, method, t) == [ref |-> ref, method |-> method, date |-> t]

\* new User({... subscriptionStatus: 'TRIAL', trialEndsAt: trialEnd, memberSince: now })
NewUser(password, t) ==
    [ password           |-> password,
      subscriptionStatus |-> "TRIAL",
      trialEndsAt        |-> t + TrialDays,
      nextBillingAt      |-> Null,
      invoices           |-> << >>,
      memberSince        |-> t,
      v                  |-> 0 ]

\* an account written by the first user model, which stored the password as
\* given and knew no trial: subscriptionStatus defaults to FREE
LegacyUser(password) ==
    [ password           |-> password,
      subscriptionStatus |-> "FREE",
      trialEndsAt        |-> Null,
      nextBillingAt      |-> Null,
      invoices           |-> << >>,
      memberSince        |-> 0,
      v                  |-> 0 ]

\* a request as handled: the handler, the email it names, its argument (the
\* password of a login or registration, the event name of a delivery), its
\* order or payment id, and the status code and message of the response
Response(op, email, arg, ref, code, msg) ==
    [op |-> op, email |-> email, arg |-> arg, ref |-> ref, code |-> code, msg |-> msg]

----------------------------------------------------------------------------
(* Mongoose documents: a loaded copy of the stored record and the set of  *)
(* paths modified since it was loaded.  Assigning a path the value it     *)
(* already has does not mark it modified; save() runs the pre-save hook   *)
(* and writes the modified paths only.                                    *)

Load(stored) == [data |-> stored, mod |-> {}]

\* doc.path = val
Set(doc, path, val) ==
    [ data |-> [doc.data EXCEPT ![path] = val],
      mod  |-> IF doc.data[path] = val THEN doc.mod ELSE doc.mod \cup {path} ]

\* doc.invoices.unshift(inv)
Unshift(doc, inv) ==
    [ data |-> [doc.data EXCEPT !.invoices = <<inv>> \o @],
      mod  |-> doc.mod \cup {"invoices"} ]

\* userSchema.pre('save'), the password step
PreSave(doc) ==
    IF "password" \in doc.mod /\ ~StartsWith(doc.data.password, "$2")
    THEN [doc EXCEPT !.data.password = BcryptHash(@, BcryptSalt)]
    ELSE doc

\* the write of doc.save(), the hooks having run: the modified paths are
\* $set on the stored record.  A save that $sets an array is versioned: it
\* matches the stored __v against the loaded one, increments it, and throws
\* VersionError when no record matches.
Write(stored, hooked) ==
    LET versioned == "invoices" \in hooked.mod
    IN  IF versioned /\ stored.v # hooked.data.v
        THEN [ok |-> FALSE, user |-> stored, doc |-> hooked]
        ELSE [ ok   |-> TRUE,
               user |-> [f \in DOMAIN stored |->
                           IF f = "v"
                           THEN (IF versioned THEN stored.v + 1 ELSE stored.v)
                           ELSE IF f \in hooked.mod THEN hooked.data[f]
                           ELSE stored[f]],
               doc  |-> [ data |-> [hooked.data EXCEPT !.v =
                                       IF versioned THEN @ + 1 ELSE @],
                          mod  |-> {} ] ]

\* doc.save() of a user document: the password step of the hook, the write
Save(stored, doc) == Write(stored, PreSave(doc))

\* new Model(rec).save(): every path of a new document counts as modified
Insert(rec) == PreSave([data |-> rec, mod |-> DOMAIN rec]).data

\* the update document as Mongoose casts it: a top-level key that is not an
\* update operator is a path to $set, and the paths under a $set key are
\* set as well
CastUpdate(updates) ==
    LET plain == [f \in DOMAIN updates \ {"$set"} |-> updates[f]]
    IN  IF "$set" \in DOMAIN updates THEN plain @@ updates["$set"] ELSE plain

\* Model.findByIdAndUpdate(id, updates): $set of the given fields, no hook
FindByIdAndUpdate(stored, updates) ==
    LET sets == CastUpdate(updates)
    IN  [f \in DOMAIN stored |-> IF f \in DOMAIN sets THEN sets[f] ELSE stored[f]]

----------------------------------------------------------------------------
(* Mongoose revision: the handlers, as functions of the record stored at  *)
(* the time of the write (stored), the record the handler loaded (snap),  *)
(* the request and the clock.  Each yields the record to store and the    *)
(* response.                                                               *)

Outcome(user, code, msg) == [user |-> user, code |-> code, msg |-> msg]

\* app.post('/api/login'), after the user was found; SaveOp is user.save()
LoginMongooseWith(SaveOp(_, _), stored, snap, password, t) ==
    LET d0     == Load(snap)
        hashed == StartsWith(snap.password, "$2")
        cmp    == IF hashed THEN BcryptCompare(password, snap.password)
                  ELSE IF snap.password = password THEN "true" ELSE "false"
    IN  IF cmp = "throw" THEN Outcome(stored, 500, "Erro interno no login.")
        ELSE IF cmp = "false" THEN Outcome(stored, 401, "Email ou senha incorretos.")
        ELSE LET s1 == IF hashed
                       THEN [ok |-> TRUE, user |-> stored, doc |-> d0]
                       ELSE SaveOp(stored, Set(d0, "password", password))
                 u1 == s1.doc.data
                 expired == /\ u1.subscriptionStatus = "TRIAL"
                            /\ u1.trialEndsAt # Null
                            /\ t > u1.trialEndsAt
                 s2 == IF expired
                       THEN SaveOp(s1.user, Set(s1.doc, "subscriptionStatus", "PENDING"))
                       ELSE s1
             IN  Outcome(s2.user, 200, "success")

\* app.post('/api/login') on the account record
LoginMongooseBody(stored, snap, password, t) ==
    LoginMongooseWith(Save, stored, snap, password, t)

\* event names the Mongoose webhook takes as an approved purchase
ApprovedMongoose == {"purchase_approved", "purchase.approved", "order.approved"}

\* app.post('/api/webhooks/cakto'), approved purchase, after the user was found
WebhookMongooseBody(stored, snap, orderId, t) ==
    IF snap.subscriptionStatus = "ACTIVE"
    THEN Outcome(stored, 200, "Already active")
    ELSE LET d1 == Set(Load(snap), "subscriptionStatus", "ACTIVE")
             d2 == Set(d1, "trialEndsAt", Null)
             d3 == Set(d2, "nextBillingAt", t + BillingDays)
             id == IF orderId # "" THEN orderId ELSE "CAKTO-" \o ToString(t)
             d4 == Unshift(d3, Invoice(id, "CAKTO", t))
             s  == Save(stored, d4)
         IN  IF s.ok THEN Outcome(s.user, 200, "Subscription activated")
             ELSE Outcome(stored, 500, "Webhook processing failed")

\* app.post('/api/activate-by-email'), after the user was found; SaveOp is
\* user.save()
ActivateByEmailWith(SaveOp(_, _), stored, snap, t) ==
    LET d1 == Set(Load(snap), "subscriptionStatus", "ACTIVE")
        d2 == Set(d1, "trialEndsAt", Null)
        d3 == Set(d2, "nextBillingAt", t + BillingDays)
        d4 == Unshift(d3, Invoice("MANUAL-" \o ToString(t), "MANUAL", t))
        s  == SaveOp(stored, d4)
    IN  IF s.ok THEN Outcome(s.user, 200, "Assinatura ativada manualmente com sucesso!")
        ELSE Outcome(stored, 500, "Erro interno ao ativar assinatura.")

\* app.post('/api/activate-by-email') on the account record
ActivateByEmailBody(stored, snap, t) == ActivateByEmailWith(Save, stored, snap, t)

\* app.get('/api/admin/fix-trials'), one user of the loop
FixTrialsUser(stored) ==
    LET correctEnd  == stored.memberSince + TrialDays
        needsUpdate == stored.trialEndsAt = Null \/ stored.trialEndsAt # correctEnd
        d1 == Set(Load(stored), "trialEndsAt", correctEnd)
        d2 == Set(d1, "nextBillingAt", correctEnd)
    IN  IF stored.subscriptionStatus = "TRIAL" /\ needsUpdate
        THEN Save(stored, d2).user
        ELSE stored

\* the `updated` counter a run of fix-trials answers over these accounts
FixTrialsUpdated(us) ==
    Cardinality({ e \in DOMAIN us :
                    /\ us[e].subscriptionStatus = "TRIAL"
                    /\ \/ us[e].trialEndsAt = Null
                       \/ us[e].trialEndsAt # us[e].memberSince + TrialDays })

\* the trial correction script, one user of its loop: the targets are the
\* TRIAL accounts and every account that holds a trialEndsAt
RunFixTrialsUser(stored) ==
    LET correctEnd == stored.memberSince + TrialDays
        target     == \/ stored.subscriptionStatus = "TRIAL"
                      \/ stored.trialEndsAt # Null
        d1 == Set(Load(stored), "trialEndsAt", correctEnd)
        d2 == IF stored.subscriptionStatus = "TRIAL"
              THEN Set(d1, "nextBillingAt", correctEnd)
              ELSE d1
    IN  IF target THEN Save(stored, d2).user ELSE stored

\* fields a PUT /api/users/:id may not carry
BlockedFields == {"subscriptionStatus", "trialEndsAt", "nextBillingAt", "invoices"}

\* app.put('/api/users/:id'), the caller being the user or an admin
PutUserMongooseBody(stored, updates) ==
    IF DOMAIN updates \cap BlockedFields # {}
    THEN Outcome(stored, 403, "Nao e permitido atualizar campos de assinatura diretamente.")
    ELSE Outcome(FindByIdAndUpdate(stored, updates), 200, "success")

----------------------------------------------------------------------------
(* Prisma revision: the handlers.  prisma.user.update writes the given    *)
(* fields of the stored row, whatever the handler read before.  The       *)
(* invoices of a user are the rows of the invoice table with its userId,  *)
(* in insertion order.                                                     *)

ApprovedPrisma == {"payment.approved", "approved", "paid"}
PendingPrisma  == {"payment.pending", "pending", "waiting"}
FailedPrisma   == {"payment.failed", "payment.canceled", "failed", "canceled", "refunded"}

\* prisma.user.update({ where: { id }, data })
PrismaUpdate(stored, data) ==
    [f \in DOMAIN stored |-> IF f \in DOMAIN data THEN data[f] ELSE stored[f]]

\* prisma.invoice.create({ data: { userId, ..., url: `.../invoice/${payment_id}` } })
PrismaInvoiceCreate(stored, paymentId, t) ==
    [stored EXCEPT !.invoices = Append(@, Invoice(paymentId, "PIX", t))]

\* the approved case: user.update, then invoice.create
ApprovePrisma(stored, paymentId, t) ==
    PrismaInvoiceCreate(
        PrismaUpdate(stored, [subscriptionStatus |-> "ACTIVE",
                              nextBillingAt      |-> t + MonthDays]),
        paymentId, t)

\* the mutant of WebhookPrismaBody: a handler whose pending and failed cases
\* write the billing date as the approved case does
WebhookPrismaBodyBilling(stored, eventType, paymentId, t) ==
    LET done == "Webhook processed successfully" IN
    IF eventType \in ApprovedPrisma
    THEN Outcome(ApprovePrisma(stored, paymentId, t), 200, done)
    ELSE Outcome(PrismaUpdate(stored, [subscriptionStatus |-> "PENDING",
                                       nextBillingAt      |-> t + MonthDays]), 200, done)

\* app.post('/api/webhooks/cakto'), after the user was found
WebhookPrismaBody(stored, eventType, paymentId, t) ==
    LET done == "Webhook processed successfully" IN
    IF eventType \in ApprovedPrisma
    THEN Outcome(ApprovePrisma(stored, paymentId, t), 200, done)
    ELSE IF eventType \in PendingPrisma
    THEN Outcome(PrismaUpdate(stored, [subscriptionStatus |-> "PENDING"]), 200, done)
    ELSE IF eventType \in FailedPrisma
    THEN Outcome(PrismaUpdate(stored, [subscriptionStatus |-> "CANCELED"]), 200, done)
    ELSE Outcome(stored, 200, done)

\* app.post('/api/login'), after the user was found
LoginPrismaBody(stored, password) ==
    LET cmp == BcryptCompare(password, stored.password) IN
    IF cmp = "throw" THEN Outcome(stored, 500, "Erro interno no servidor.")
    ELSE IF cmp = "false" THEN Outcome(stored, 401, "Email ou senha incorretos.")
    ELSE Outcome(stored, 200, "success")

----------------------------------------------------------------------------
(* Requests *)

\* event names a gateway delivery may carry; "" is a delivery without one
Events == {"purchase_approved", "payment.approved", "payment.pending",
           "payment.failed", "subscription_renewed", ""}

\* order / payment ids of the gateway; "" is a delivery without one
OrderIds == {"ord-1", "ord-2", ""}

\* bodies of PUT /api/users/:id
PutBodies ==
    {[password |-> Outra], [password |-> Dollar2Long],
     [subscriptionStatus |-> "ACTIVE"],
     [password |-> Outra, subscriptionStatus |-> "ACTIVE"]}

\* columns of the user table that prisma.user.update takes in its data
UserColumns ==
    {"password", "subscriptionStatus", "trialEndsAt", "nextBillingAt", "memberSince"}

NoResponse == Response("none", "", "", "", 0, "")

\* a request between its read of the user and its write: the handler, its
\* arguments and the record it read
Request(op, e, arg, ref, snap) ==
    [op |-> op, email |-> e, arg |-> arg, ref |-> ref, snap |-> snap]

Slots == 1 .. MaxInflight

Idle == Request("idle", "", "", "", LegacyUser(""))

Exists(e) == e \in DOMAIN users

\* the ledger has room for one more invoice, and the document for one more
\* versioned save (bound of the model)
Room(e) == Len(users[e].invoices) < MaxInvoices /\ users[e].v < MaxInvoices

Store(e, rec) == users' = [users EXCEPT ![e] = rec]

Create(e, rec) == users' = (e :> rec) @@ users

Reply(op, e, arg, ref, code, msg) == resp' = Response(op, e, arg, ref, code, msg)

\* store the handler's outcome for user e and answer
Finish(op, e, arg, ref, out) ==
    /\ Store(e, out.user)
    /\ Reply(op, e, arg, ref, out.code, out.msg)

----------------------------------------------------------------------------
(* Initial state: the revision deployed, and either no account or an      *)
(* account left by an earlier deployment: one whose password was stored   *)
(* as given (before hashing was introduced), or one registered with a     *)
(* hashed password and still in its trial.                                *)

\* the Postgres database before the migration: every table empty
NoTables ==
    [user |-> << >>, invoice |-> << >>, store |-> << >>,
     customer |-> << >>, supplier |-> << >>]

\* no codec call or field request yet
NoView == [op |-> "none", arg |-> "", env |-> "", code |-> 0, data |-> ""]

SeedUsers ==
    { << >> } \cup
    { (e :> LegacyUser(Senha))                      : e \in Emails } \cup
    { (e :> NewUser(BcryptHash(Senha, BcryptSalt), 0)) : e \in Emails }

Init ==
    /\ rev \in Revisions
    /\ users \in SeedUsers
    /\ now = 0
    /\ resp = NoResponse
    /\ inflight = [r \in Slots |-> Idle]
    /\ key = GoodKey
    /\ ents = << >>
    /\ view = NoView
    /\ pg = NoTables

\* time passes
Tick ==
    /\ now < MaxTime
    /\ now' = now + 1
    /\ UNCHANGED <<rev, users, resp, inflight, key, ents, view, pg>>

----------------------------------------------------------------------------
(* Mongoose revision: the requests, each handled to completion *)

\* POST /api/users
Register(e, password) ==
    /\ rev = "mongoose"
    /\ IF Exists(e)
       THEN /\ Reply("register", e, password, "", 400, "Email ja cadastrado.")
            /\ UNCHANGED users
       ELSE /\ Create(e, Insert(NewUser(password, now)))
            /\ Reply("register", e, password, "", 201, "success")
    /\ UNCHANGED <<rev, now, inflight, key, ents, view, pg>>

\* POST /api/login
LoginMongoose(e, password) ==
    /\ rev = "mongoose"
    /\ IF ~Exists(e)
       THEN /\ Reply("login", e, password, "", 401, "Email ou senha incorretos.")
            /\ UNCHANGED users
       ELSE Finish("login", e, password, "", LoginMongooseBody(users[e], users[e], password, now))
    /\ UNCHANGED <<rev, now, inflight, key, ents, view, pg>>

\* PUT /api/users/:id
PutUserMongoose(e, updates) ==
    /\ rev = "mongoose"
    /\ Exists(e)
    /\ Finish("putUser", e, "", "", PutUserMongooseBody(users[e], updates))
    /\ UNCHANGED <<rev, now, inflight, key, ents, view, pg>>

\* POST /api/users/:id/activate-subscription
ActivateSubscription(e) ==
    /\ rev = "mongoose"
    /\ IF Exists(e)
       THEN Reply("activateSubscription", e, "", "", 400, "Ativacao direta descontinuada.")
       ELSE Reply("activateSubscription", e, "", "", 404, "Usuario nao encontrado.")
    /\ UNCHANGED <<rev, users, now, inflight, key, ents, view, pg>>

\* POST /api/activate-by-email
ActivateByEmail(e) ==
    /\ rev = "mongoose"
    /\ IF ~Exists(e)
       THEN /\ Reply("activateByEmail", e, "", "", 404, "Usuario nao encontrado.")
            /\ UNCHANGED users
       ELSE /\ Room(e)
            /\ Finish("activateByEmail", e, "", "", ActivateByEmailBody(users[e], users[e], now))
    /\ UNCHANGED <<rev, now, inflight, key, ents, view, pg>>

\* GET /api/admin/fix-trials?secret=capi2024fix
FixTrials ==
    /\ rev = "mongoose"
    /\ users' = [e \in DOMAIN users |-> FixTrialsUser(users[e])]
    /\ Reply("fixTrials", "", "", "", 200, "success")
    /\ UNCHANGED <<rev, now, inflight, key, ents, view, pg>>

\* the trial correction script, run to its process.exit(0)
RunFixTrials ==
    /\ rev = "mongoose"
    /\ users' = [e \in DOMAIN users |-> RunFixTrialsUser(users[e])]
    /\ Reply("run", "", "", "", 0, "success")
    /\ UNCHANGED <<rev, now, inflight, key, ents, view, pg>>

\* POST /api/webhooks/cakto
WebhookMongoose(event, e, orderId) ==
    /\ rev = "mongoose"
    /\ IF event = ""
       THEN /\ Reply("webhook", e, event, orderId, 400, "Invalid webhook structure")
            /\ UNCHANGED users
       ELSE IF event \notin ApprovedMongoose
       THEN /\ Reply("webhook", e, event, orderId, 200, "received")
            /\ UNCHANGED users
       ELSE IF e = ""
       THEN /\ Reply("webhook", e, event, orderId, 400, "Customer email not found")
            /\ UNCHANGED users
       ELSE IF ~Exists(e)
       THEN /\ Reply("webhook", e, event, orderId, 404, "User not found")
            /\ UNCHANGED users
       ELSE /\ Room(e)
            /\ Finish("webhook", e, event, orderId,
                      WebhookMongooseBody(users[e], users[e], orderId, now))
    /\ UNCHANGED <<rev, now, inflight, key, ents, view, pg>>

----------------------------------------------------------------------------
(* Prisma revision: the requests, each handled to completion *)

\* POST /api/auth/google-register
GoogleRegister(e) ==
    /\ rev = "prisma"
    /\ IF Exists(e)
       THEN /\ Reply("googleRegister", e, "", "", 400, "Email ja cadastrado.")
            /\ UNCHANGED users
       ELSE /\ Create(e, NewUser(BcryptHash(RandomPassword, BcryptSalt), now))
            /\ Reply("googleRegister", e, "", "", 201, "success")
    /\ UNCHANGED <<rev, now, inflight, key, ents, view, pg>>

\* POST /api/login
LoginPrisma(e, password) ==
    /\ rev = "prisma"
    /\ IF ~Exists(e)
       THEN /\ Reply("login", e, password, "", 401, "Email ou senha incorretos.")
            /\ UNCHANGED users
       ELSE Finish("login", e, password, "", LoginPrismaBody(users[e], password))
    /\ UNCHANGED <<rev, now, inflight, key, ents, view, pg>>

\* PUT /api/users/:userId
PutUserPrisma(e, updates) ==
    /\ rev = "prisma"
    /\ IF ~Exists(e)
       THEN /\ Reply("putUser", e, "", "", 500, "Erro ao atualizar usuario.")
            /\ UNCHANGED users
       ELSE IF ~(DOMAIN updates \subseteq UserColumns)
       THEN \* prisma rejects an argument that is no column of the model
            /\ Reply("putUser", e, "", "", 500, "Erro ao atualizar usuario.")
            /\ UNCHANGED users
       ELSE Finish("putUser", e, "", "", Outcome(PrismaUpdate(users[e], updates), 200, "success"))
    /\ UNCHANGED <<rev, now, inflight, key, ents, view, pg>>

\* POST /api/webhooks/cakto
WebhookPrisma(eventType, e, paymentId) ==
    /\ rev = "prisma"
    /\ IF ~Exists(e)
       THEN /\ Reply("webhook", e, eventType, paymentId, 404, "User not found")
            /\ UNCHANGED users
       ELSE /\ eventType \in ApprovedPrisma => Room(e)
            /\ Finish("webhook", e, eventType, paymentId,
                      WebhookPrismaBody(users[e], eventType, paymentId, now))
    /\ UNCHANGED <<rev, now, inflight, key, ents, view, pg>>

\* POST /api/webhooks/cakto/payment-approved
WebhookPaymentApproved(e, paymentId) ==
    /\ rev = "prisma"
    /\ IF ~Exists(e)
       THEN /\ Reply("webhook.approved", e, "payment.approved", paymentId, 404, "User not found")
            /\ UNCHANGED users
       ELSE /\ Room(e)
            /\ Finish("webhook.approved", e, "payment.approved", paymentId,
                      Outcome(ApprovePrisma(users[e], paymentId, now), 200,
                              "Payment processed successfully"))
    /\ UNCHANGED <<rev, now, inflight, key, ents, view, pg>>

\* POST /api/webhooks/cakto/payment-pending
WebhookPaymentPending(e, paymentId) ==
    /\ rev = "prisma"
    /\ IF Exists(e)
       THEN Store(e, PrismaUpdate(users[e], [subscriptionStatus |-> "PENDING"]))
       ELSE UNCHANGED users
    /\ Reply("webhook.pending", e, "payment.pending", paymentId, 200, "Payment pending registered")
    /\ UNCHANGED <<rev, now, inflight, key, ents, view, pg>>

\* POST /api/webhooks/cakto/payment-failed
WebhookPaymentFailed(e, paymentId) ==
    /\ rev = "prisma"
    /\ IF Exists(e)
       THEN Store(e, PrismaUpdate(users[e], [subscriptionStatus |-> "CANCELED"]))
       ELSE UNCHANGED users
    /\ Reply("webhook.failed", e, "payment.failed", paymentId, 200, "Payment failure registered")
    /\ UNCHANGED <<rev, now, inflight, key, ents, view, pg>>

----------------------------------------------------------------------------

Next ==
    \/ Tick
    \/ \E e \in Emails, pw \in Passwords : Register(e, pw)
    \/ \E e \in AnyEmail, pw \in Passwords : LoginMongoose(e, pw)
    \/ \E e \in Emails, b \in PutBodies : PutUserMongoose(e, b)
    \/ \E e \in AnyEmail : ActivateSubscription(e)
    \/ \E e \in AnyEmail : ActivateByEmail(e)
    \/ FixTrials
    \/ \E ev \in Events, e \in AnyEmail \cup {""}, o \in OrderIds : WebhookMongoose(ev, e, o)
    \/ \E e \in Emails : GoogleRegister(e)
    \/ \E e \in AnyEmail, pw \in Passwords : LoginPrisma(e, pw)
    \/ \E e \in AnyEmail, b \in PutBodies : PutUserPrisma(e, b)
    \/ \E ev \in Events, e \in AnyEmail, o \in OrderIds : WebhookPrisma(ev, e, o)
    \/ \E e \in AnyEmail, o \in OrderIds : WebhookPaymentApproved(e, o)
    \/ \E e \in AnyEmail, o \in OrderIds : WebhookPaymentPending(e, o)
    \/ \E e \in AnyEmail, o \in OrderIds : WebhookPaymentFailed(e, o)

Spec == Init /\ [][Next]_vars

----------------------------------------------------------------------------
(* The same handlers, interleaved at their awaits: a request first reads  *)
(* its user (findOne / findUnique) and later, other requests having run   *)
(* in between, does the rest on the document it read.                     *)

Free(r) == inflight[r].op = "idle"

Begin(r, op, e, arg, ref) ==
    /\ Free(r)
    /\ Exists(e)
    /\ inflight' = [inflight EXCEPT ![r] = Request(op, e, arg, ref, users[e])]
    /\ UNCHANGED <<rev, users, now, resp, key, ents, view, pg>>

End(r, out) ==
    /\ Finish(inflight[r].op, inflight[r].email, inflight[r].arg, inflight[r].ref, out)
    /\ inflight' = [inflight EXCEPT ![r] = Idle]
    /\ UNCHANGED <<rev, now, key, ents, view, pg>>

\* POST /api/login (Mongoose): User.findOne({ email })
BeginLogin(r, e, password) ==
    /\ rev = "mongoose"
    /\ Begin(r, "login", e, password, "")

\* POST /api/login (Mongoose): the password check, the saves, the response
EndLogin(r) ==
    /\ inflight[r].op = "login"
    /\ End(r, LoginMongooseBody(users[inflight[r].email], inflight[r].snap,
                                inflight[r].arg, now))

\* POST /api/webhooks/cakto: the user lookup of a delivery that is processed
BeginWebhook(r, event, e, ref) ==
    /\ rev = "mongoose" => event \in ApprovedMongoose
    /\ Exists(e)
    /\ Len(users[e].invoices)
         + Cardinality({q \in Slots : inflight[q].op = "webhook"}) < MaxInvoices
    /\ Begin(r, "webhook", e, event, ref)

\* POST /api/webhooks/cakto: the rest of the handler
EndWebhook(r) ==
    /\ inflight[r].op = "webhook"
    /\ End(r, IF rev = "mongoose"
              THEN WebhookMongooseBody(users[inflight[r].email], inflight[r].snap,
                                       inflight[r].ref, now)
              ELSE WebhookPrismaBody(users[inflight[r].email], inflight[r].arg,
                                     inflight[r].ref, now))

NextConc ==
    \/ Tick
    \/ \E r \in Slots, e \in Emails, pw \in Passwords : BeginLogin(r, e, pw)
    \/ \E r \in Slots : EndLogin(r)
    \/ \E r \in Slots, ev \in Events, e \in Emails, o \in OrderIds : BeginWebhook(r, ev, e, o)
    \/ \E r \in Slots : EndWebhook(r)

SpecConc == Init /\ [][NextConc]_vars

----------------------------------------------------------------------------
(* The subscription on its own: the registrations, the gateway's          *)
(* deliveries, the manual activation and the trial correction, without    *)
(* the logins and the profile updates.                                    *)

NextBilling ==
    \/ Tick
    \/ \E e \in Emails : Register(e, Senha)
    \/ \E e \in AnyEmail : ActivateByEmail(e)
    \/ FixTrials
    \/ \E ev \in Events, e \in AnyEmail \cup {""}, o \in OrderIds : WebhookMongoose(ev, e, o)
    \/ \E e \in Emails : GoogleRegister(e)
    \/ \E ev \in Events, e \in AnyEmail, o \in OrderIds : WebhookPrisma(ev, e, o)
    \/ \E e \in AnyEmail, o \in OrderIds : WebhookPaymentApproved(e, o)
    \/ \E e \in AnyEmail, o \in OrderIds : WebhookPaymentPending(e, o)
    \/ \E e \in AnyEmail, o \in OrderIds : WebhookPaymentFailed(e, o)

SpecBilling == Init /\ [][NextBilling]_vars

----------------------------------------------------------------------------
(* The profile update on its own, with the bodies a client may send: JSON *)
(* objects whose keys are fields of the account or update operators,      *)
(* between the requests that add to the ledger.                           *)

\* bodies of PUT /api/users/:id: {"name": ...} is a body with no field of
\* the model's record, the $set ones carry an update operator as their key
ProfileBodies ==
    { [password |-> Outra],
      [subscriptionStatus |-> "ACTIVE"],
      [password |-> Outra, subscriptionStatus |-> "ACTIVE"],
      [password |-> Outra, trialEndsAt |-> MaxTime],
      [nextBillingAt |-> MaxTime],
      [invoices |-> << >>],
      ("$set" :> [invoices |-> << >>]),
      ("$set" :> [subscriptionStatus |-> "ACTIVE"]) }

NextProfile ==
    \/ Tick
    \/ \E e \in Emails, b \in ProfileBodies : PutUserMongoose(e, b)
    \/ \E e \in AnyEmail, b \in ProfileBodies : PutUserPrisma(e, b)
    \/ \E e \in Emails : ActivateByEmail(e)
    \/ \E e \in Emails, o \in OrderIds : WebhookPaymentApproved(e, o)

SpecProfile == Init /\ [][NextProfile]_vars

----------------------------------------------------------------------------
(* The field codec on its own: the process is started with some value of  *)
(* ENCRYPTION_KEY and encrypt, decrypt and hashField are called; a        *)
(* restart keeps what was returned before, as the database does.          *)

\* texts given to encrypt and hashField; "" and Nil are the empty and the
\* absent input
PlainTexts == {"11999887766", " 11999887766 ", "12.345.678/0001-95", "", Nil}

\* stored values that were never encrypted: without a ':', or with a ':'
\* and parts that are not hex
LegacyTexts == {"11999887766", "(11) 9:00", "+55 11 9:zz", "ramal 12:x4"}

\* a call of the codec and what it returned; env is the key it ran under
Call(op, arg, data) == [op |-> op, arg |-> arg, env |-> key, code |-> 0, data |-> data]

InitCodec ==
    /\ rev = "mongoose"
    /\ users = << >>
    /\ now = 0
    /\ resp = NoResponse
    /\ inflight = [r \in Slots |-> Idle]
    /\ key \in EnvKeys
    /\ ents = << >>
    /\ view = NoView
    /\ pg = NoTables

\* the process starts: the key is read, a bad one is logged and kept
Restart(env) ==
    /\ key' = env
    /\ UNCHANGED <<rev, users, now, resp, inflight, ents, view, pg>>

\* encrypt(text)
CallEncrypt(text) ==
    /\ \E iv \in IVs : view' = Call("encrypt", text, encrypt(text, key, iv))
    /\ UNCHANGED <<rev, users, now, resp, inflight, key, ents, pg>>

\* decrypt(text) of a stored value that was never encrypted, or of none
CallDecrypt(text) ==
    /\ view' = Call("decrypt", text, decrypt(text, key))
    /\ UNCHANGED <<rev, users, now, resp, inflight, key, ents, pg>>

\* decrypt(text) of what encrypt returned before
DecryptStored ==
    /\ view.op = "encrypt"
    /\ view.data # Thrown
    /\ view' = Call("decrypt", view.data, decrypt(view.data, key))
    /\ UNCHANGED <<rev, users, now, resp, inflight, key, ents, pg>>

\* hashField(text)
CallHashField(text) ==
    /\ view' = Call("hashField", text, hashField(text))
    /\ UNCHANGED <<rev, users, now, resp, inflight, key, ents, pg>>

NextCodec ==
    \/ \E env \in EnvKeys : Restart(env)
    \/ \E text \in PlainTexts : CallEncrypt(text)
    \/ \E text \in LegacyTexts \cup {"", Nil} : CallDecrypt(text)
    \/ DecryptStored
    \/ \E text \in PlainTexts : CallHashField(text)

SpecCodec == InitCodec /\ [][NextCodec]_vars

----------------------------------------------------------------------------
(* Sensitive fields: the entities that carry a phone or a tax id (users,  *)
(* customers, suppliers), the hooks and handlers that write them and the  *)
(* views the handlers return.                                             *)

\* a user as registered: the account record with the identity and the
\* sensitive fields as submitted
UserRec(e, password, phone, taxId, t) ==
    [ kind |-> "user", email |-> e,
      phone |-> phone, phoneHash |-> Nil,
      taxId |-> taxId, taxIdHash |-> Nil ] @@ NewUser(password, t)

\* the store of the routes' :storeId
StoreId == "store-1"

\* a customer or supplier of a store
PartyRec(kind, phone) ==
    [kind |-> kind, storeId |-> StoreId, phone |-> phone, phoneHash |-> Nil]

\* the sensitive fields of a kind of entity, each with its blind index
SensitiveFields(kind) == IF kind = "user" THEN {"phone", "taxId"} ELSE {"phone"}

HashOf(f) == IF f = "phone" THEN "phoneHash" ELSE "taxIdHash"

\* the mutant of PreSaveField: a hook without the isModified and ':' guards
PreSaveFieldAlways(doc, f, env, iv) ==
    IF ~Falsy(doc.data[f])
    THEN [ data |-> [doc.data EXCEPT ![HashOf(f)] = hashField(doc.data[f]),
                                     ![f] = encrypt(doc.data[f], env, iv)],
           mod  |-> doc.mod \cup {f, HashOf(f)} ]
    ELSE doc

\* one step of pre('save') for field f: a modified, non-empty value without
\* a ':' is hashed into its blind index and then encrypted
PreSaveField(doc, f, env, iv) ==
    IF f \in doc.mod /\ ~Falsy(doc.data[f]) /\ ~Includes(doc.data[f], ":")
    THEN [ data |-> [doc.data EXCEPT ![HashOf(f)] = hashField(doc.data[f]),
                                     ![f] = encrypt(doc.data[f], env, iv)],
           mod  |-> doc.mod \cup {HashOf(f)} ]
    ELSE doc

\* pre('save') of an entity of the kind: the password step of a user, then
\* the sensitive fields; iv1 and iv2 are the IVs encrypt draws
PreSaveFields(doc, env, iv1, iv2) ==
    IF doc.data.kind = "user"
    THEN PreSaveField(PreSaveField(PreSave(doc), "phone", env, iv1), "taxId", env, iv2)
    ELSE PreSaveField(doc, "phone", env, iv1)

\* encrypt threw in the hook: save() rejects
HookThrew(doc) == \E f \in SensitiveFields(doc.data.kind) : doc.data[f] = Thrown

\* doc.save() of a loaded document with sensitive fields: the whole hook,
\* then the write; the save rejects when encrypt threw in the hook
SaveFields(stored, doc, env, iv1, iv2) ==
    LET hooked == PreSaveFields(doc, env, iv1, iv2)
    IN  IF HookThrew(hooked)
        THEN [ok |-> FALSE, user |-> stored, doc |-> hooked]
        ELSE Write(stored, hooked)

\* new Model(rec).save()
InsertFields(rec, env, iv1, iv2) ==
    LET hooked == PreSaveFields([data |-> rec, mod |-> DOMAIN rec], env, iv1, iv2)
    IN  [ok |-> ~HookThrew(hooked), data |-> hooked.data]

\* decrypt inside try { } catch { null } (toJSON of models/User.js,
\* models/Customer.js, models/Supplier.js)
TryDecrypt(text, env) ==
    LET r == decrypt(text, env) IN IF r = Thrown THEN Nil ELSE r

\* toJSON: password and blind indexes are deleted, non-empty sensitive
\* fields are decrypted
toJSON(rec, env) ==
    [f \in DOMAIN rec \ {"password", "phoneHash", "taxIdHash"} |->
       IF f \in SensitiveFields(rec.kind) /\ ~Falsy(rec[f])
       THEN TryDecrypt(rec[f], env)
       ELSE rec[f]]

\* a record as the database returns it (Prisma): every column
Raw(rec) == rec

\* a field request and its response: op and arg name the handler and the
\* request body, code and data are the status and the body of the answer
View(op, arg, code, data) ==
    [op |-> op, arg |-> arg, env |-> key, code |-> code, data |-> data]

\* the users stored
UserIds == {id \in DOMAIN ents : ents[id].kind = "user"}

\* User.findOne({ $or: duplicateQuery }): the users one of the clauses matches
Duplicates(e, phone, taxId) ==
    {id \in UserIds :
       \/ ents[id].email = e
       \/ ~Falsy(phone) /\ ents[id].phoneHash = hashField(phone)
       \/ ~Falsy(taxId) /\ ents[id].taxIdHash = hashField(taxId)}

\* the message of the duplicate answer, for the user findOne returned
DuplicateMsg(u, e, phone, taxId) ==
    IF u.email = e THEN "Email ja cadastrado."
    ELSE IF u.phoneHash = hashField(phone) THEN "Telefone ja cadastrado."
    ELSE IF u.taxIdHash = hashField(taxId) THEN "CNPJ/CPF ja cadastrado."
    ELSE "Usuario ja cadastrado."

\* requests of the field handlers
FieldEmails == {"ana@capi.com", "bia@capi.com"}
Phones      == {"11999887766", " 11999887766"}
TaxIds      == {"12.345.678/0001-95"}
FieldPasswords == {Senha}
FieldUpdates == {[phone |-> p] : p \in Phones} \cup {[taxId |-> x] : x \in TaxIds}
PartyKinds  == {"customer", "supplier"}
PartyId(kind) == IF kind = "customer" THEN "cust-1" ELSE "sup-1"

Known(id) == id \in DOMAIN ents

\* the store has room for one more entity (bound of the model)
RoomFor == Cardinality(DOMAIN ents) < MaxEnts

\* entities left by an earlier deployment: none, or a user registered while
\* ENCRYPTION_KEY had its previous value
SeedEnts ==
    { << >> } \cup
    { ("ana@capi.com" :>
         InsertFields(UserRec("ana@capi.com", Senha, "11999887766", Nil, 0),
                      OtherKey, iv1, iv2).data) : iv1 \in IVs, iv2 \in IVs }

Put(id, rec) == ents' = (id :> rec) @@ ents

InitFields ==
    /\ rev \in Revisions
    /\ users = << >>
    /\ now = 0
    /\ resp = NoResponse
    /\ inflight = [r \in Slots |-> Idle]
    /\ key \in {GoodKey, ShortKey}
    /\ ents \in SeedEnts
    /\ view = NoView
    /\ pg = NoTables

\* POST /api/users (Mongoose)
RegisterUser(e, password, phone, taxId) ==
    LET req == [email |-> e, phone |-> phone, taxId |-> taxId]
        dup == Duplicates(e, phone, taxId)
    IN  /\ rev = "mongoose"
        /\ RoomFor
        /\ IF dup # {}
           THEN /\ \E id \in dup :
                     view' = View("register", req, 400,
                                  DuplicateMsg(ents[id], e, phone, taxId))
                /\ UNCHANGED ents
           ELSE \E iv1 \in IVs, iv2 \in IVs :
                  LET ins == InsertFields(UserRec(e, password, phone, taxId, now),
                                          key, iv1, iv2)
                  IN  IF ins.ok
                      THEN /\ Put(e, ins.data)
                           /\ view' = View("register", req, 201, toJSON(ins.data, key))
                      ELSE /\ view' = View("register", req, 500, "Erro ao criar usuario.")
                           /\ UNCHANGED ents
        /\ UNCHANGED <<rev, users, now, resp, inflight, key, pg>>

\* POST /api/login (Mongoose), the account record and its view
LoginUserMongoose(e, password) ==
    /\ rev = "mongoose"
    /\ Known(e)
    /\ \E iv1 \in IVs, iv2 \in IVs :
         LET save(stored, doc) == SaveFields(stored, doc, key, iv1, iv2)
             out == LoginMongooseWith(save, ents[e], ents[e], password, now)
         IN  /\ Put(e, out.user)
             /\ view' = View("login", [email |-> e], out.code,
                             IF out.code = 200 THEN toJSON(out.user, key) ELSE out.msg)
    /\ UNCHANGED <<rev, users, now, resp, inflight, key, pg>>

\* PUT /api/users/:id (Mongoose)
PutUserFieldsMongoose(e, updates) ==
    /\ rev = "mongoose"
    /\ Known(e)
    /\ LET out == PutUserMongooseBody(ents[e], updates)
       IN  /\ Put(e, out.user)
           /\ view' = View("putUser", updates, out.code,
                           IF out.code = 200 THEN toJSON(out.user, key) ELSE out.msg)
    /\ UNCHANGED <<rev, users, now, resp, inflight, key, pg>>

\* createHandler(Customer), createHandler(Supplier) (Mongoose)
CreateParty(kind, phone) ==
    /\ rev = "mongoose"
    /\ RoomFor
    /\ ~Known(PartyId(kind))
    /\ \E iv \in IVs :
         LET ins == InsertFields(PartyRec(kind, phone), key, iv, iv)
         IN  IF ins.ok
             THEN /\ Put(PartyId(kind), ins.data)
                  /\ view' = View("createParty", [phone |-> phone], 201,
                                  toJSON(ins.data, key))
             ELSE /\ view' = View("createParty", [phone |-> phone], 500, "Invalid key length")
                  /\ UNCHANGED ents
    /\ UNCHANGED <<rev, users, now, resp, inflight, key, pg>>

\* updateHandler(Customer), updateHandler(Supplier) (Mongoose)
UpdateParty(kind, phone) ==
    /\ rev = "mongoose"
    /\ Known(PartyId(kind))
    /\ LET rec == FindByIdAndUpdate(ents[PartyId(kind)], [phone |-> phone])
       IN  /\ Put(PartyId(kind), rec)
           /\ view' = View("updateParty", [phone |-> phone], 200, toJSON(rec, key))
    /\ UNCHANGED <<rev, users, now, resp, inflight, key, pg>>

\* listHandler(Customer), listHandler(Supplier) (Mongoose)
ListParties(kind) ==
    /\ rev = "mongoose"
    /\ view' = View("listParties", [kind |-> kind], 200,
                    [id \in {i \in DOMAIN ents : ents[i].kind = kind} |->
                       toJSON(ents[id], key)])
    /\ UNCHANGED <<rev, users, now, resp, inflight, key, ents, pg>>

\* prisma.user.create of google-register: the row, or Thrown when encrypt threw
GoogleUserRow(e, phone, taxId, env, iv1, iv2, t) ==
    LET row == [ UserRec(e, BcryptHash(RandomPassword, BcryptSalt), Nil, Nil, t)
                   EXCEPT !.phone     = IF ~Falsy(phone) THEN encrypt(phone, env, iv1) ELSE Nil,
                          !.taxId     = IF ~Falsy(taxId) THEN encrypt(taxId, env, iv2) ELSE Nil,
                          !.phoneHash = IF ~Falsy(phone) THEN hashField(phone) ELSE Nil,
                          !.taxIdHash = IF ~Falsy(taxId) THEN hashField(taxId) ELSE Nil ]
    IN  [ok |-> row.phone # Thrown /\ row.taxId # Thrown, data |-> row]

\* POST /api/auth/google-register (Prisma).  The handler looks up the email
\* and the tax-id hash; whether the table also refuses a second row with the
\* same phone hash (a unique column) is for the schema to say: both are taken.
GoogleRegisterUser(e, phone, taxId) ==
    LET req == [email |-> e, phone |-> phone, taxId |-> taxId] IN
    /\ rev = "prisma"
    /\ RoomFor
    /\ IF Falsy(taxId)
       THEN /\ view' = View("googleRegister", req, 400, "Dados de cadastro incompletos.")
            /\ UNCHANGED ents
       ELSE IF \E id \in UserIds : ents[id].email = e
       THEN /\ view' = View("googleRegister", req, 400, "Email ja cadastrado.")
            /\ UNCHANGED ents
       ELSE IF \E id \in UserIds : ents[id].taxIdHash = hashField(taxId)
       THEN /\ view' = View("googleRegister", req, 400, "CPF ja cadastrado.")
            /\ UNCHANGED ents
       ELSE \E iv1 \in IVs, iv2 \in IVs, phoneHashUnique \in BOOLEAN :
              LET ins == GoogleUserRow(e, phone, taxId, key, iv1, iv2, now)
                  clash == /\ phoneHashUnique
                           /\ ~Falsy(phone)
                           /\ \E id \in UserIds : ents[id].phoneHash = hashField(phone)
              IN  IF ins.ok /\ ~clash
                  THEN /\ Put(e, ins.data)
                       /\ view' = View("googleRegister", req, 201, Raw(ins.data))
                  ELSE /\ view' = View("googleRegister", req, 500,
                                       "Erro interno ao realizar cadastro.")
                       /\ UNCHANGED ents
    /\ UNCHANGED <<rev, users, now, resp, inflight, key, pg>>

\* POST /api/login (Prisma), the account record and its view
LoginUserPrisma(e, password) ==
    /\ rev = "prisma"
    /\ Known(e)
    /\ LET out == LoginPrismaBody(ents[e], password)
       IN  view' = View("login", [email |-> e], out.code,
                        IF out.code = 200 THEN Raw(out.user) ELSE out.msg)
    /\ UNCHANGED <<rev, users, now, resp, inflight, key, ents, pg>>

\* the updates of PUT /api/users/:userId after its encryption step: the
\* field is replaced by its ciphertext and the hash is taken of the result
EncryptUpdates(updates, env, iv) ==
    LET f   == CHOOSE g \in DOMAIN updates : TRUE
        enc == encrypt(updates[f], env, iv)
    IN  IF Falsy(updates[f]) THEN [ok |-> TRUE, data |-> updates]
        ELSE [ok |-> enc # Thrown, data |-> (f :> enc) @@ (HashOf(f) :> hashField(enc))]

\* PUT /api/users/:userId (Prisma)
PutUserFieldsPrisma(e, updates) ==
    /\ rev = "prisma"
    /\ Known(e)
    /\ \E iv \in IVs :
         LET upd == EncryptUpdates(updates, key, iv)
         IN  IF upd.ok
             THEN /\ Put(e, PrismaUpdate(ents[e], upd.data))
                  /\ view' = View("putUser", updates, 200,
                                  Raw(PrismaUpdate(ents[e], upd.data)))
             ELSE /\ view' = View("putUser", updates, 500, "Erro ao atualizar usuario.")
                  /\ UNCHANGED ents
    /\ UNCHANGED <<rev, users, now, resp, inflight, key, pg>>

\* POST /api/stores/:storeId/customers (Prisma)
CreateCustomerPrisma(phone) ==
    /\ rev = "prisma"
    /\ RoomFor
    /\ ~Known(PartyId("customer"))
    /\ \E iv \in IVs :
         LET upd == EncryptUpdates([phone |-> phone], key, iv)
             row == PrismaUpdate(PartyRec("customer", Nil), upd.data)
         IN  IF upd.ok
             THEN /\ Put(PartyId("customer"), row)
                  /\ view' = View("createParty", [phone |-> phone], 201, Raw(row))
             ELSE /\ view' = View("createParty", [phone |-> phone], 500, "Erro ao criar cliente.")
                  /\ UNCHANGED ents
    /\ UNCHANGED <<rev, users, now, resp, inflight, key, pg>>

NextFields ==
    \/ \E e \in FieldEmails, p \in Phones \cup {Nil}, x \in TaxIds \cup {Nil} :
         RegisterUser(e, Senha, p, x)
    \/ \E e \in FieldEmails, pw \in FieldPasswords : LoginUserMongoose(e, pw)
    \/ \E e \in FieldEmails, u \in FieldUpdates : PutUserFieldsMongoose(e, u)
    \/ \E k \in PartyKinds, p \in Phones : CreateParty(k, p)
    \/ \E k \in PartyKinds, p \in Phones : UpdateParty(k, p)
    \/ \E k \in PartyKinds : ListParties(k)
    \/ \E e \in FieldEmails, p \in Phones \cup {Nil}, x \in TaxIds \cup {Nil} :
         GoogleRegisterUser(e, p, x)
    \/ \E e \in FieldEmails, pw \in FieldPasswords : LoginUserPrisma(e, pw)
    \/ \E e \in FieldEmails, u \in FieldUpdates : PutUserFieldsPrisma(e, u)
    \/ \E p \in Phones : CreateCustomerPrisma(p)

SpecFields == InitFields /\ [][NextFields]_vars

----------------------------------------------------------------------------
(* Registration interleaved at its awaits (Mongoose revision): a request  *)
(* first looks for a duplicate (User.findOne) and later, other requests   *)
(* having run in between, saves the new user.  The collection has a       *)
(* unique index on email and plain indexes on phoneHash and taxIdHash.    *)

\* POST /api/users: the duplicate lookup and, when a user is found, the answer
BeginRegisterUser(r, e, phone, taxId) ==
    LET req == [email |-> e, phone |-> phone, taxId |-> taxId]
        dup == Duplicates(e, phone, taxId)
    IN  /\ rev = "mongoose"
        /\ Free(r)
        /\ RoomFor
        /\ IF dup # {}
           THEN /\ \E id \in dup :
                     view' = View("register", req, 400,
                                  DuplicateMsg(ents[id], e, phone, taxId))
                /\ UNCHANGED inflight
           ELSE /\ inflight' = [inflight EXCEPT ![r] =
                                  Request("register", e, phone, taxId, Idle.snap)]
                /\ UNCHANGED view
        /\ UNCHANGED <<rev, users, now, resp, key, ents, pg>>

\* POST /api/users: newUser.save() and the response; the unique index on
\* email rejects a second user with the email (E11000)
EndRegisterUser(r) ==
    LET e   == inflight[r].email
        req == [email |-> e, phone |-> inflight[r].arg, taxId |-> inflight[r].ref]
    IN  /\ inflight[r].op = "register"
        /\ \E iv1 \in IVs, iv2 \in IVs :
             LET ins == InsertFields(UserRec(e, Senha, req.phone, req.taxId, now),
                                     key, iv1, iv2)
             IN  IF ins.ok /\ ~Known(e)
                 THEN /\ Put(e, ins.data)
                      /\ view' = View("register", req, 201, toJSON(ins.data, key))
                 ELSE /\ view' = View("register", req, 500, "Erro ao criar usuario.")
                      /\ UNCHANGED ents
        /\ inflight' = [inflight EXCEPT ![r] = Idle]
        /\ UNCHANGED <<rev, users, now, resp, key, pg>>

\* the phone of the requests where one phone is enough
OnePhone == {"11999887766"}

InitRegister ==
    /\ rev = "mongoose"
    /\ users = << >>
    /\ now = 0
    /\ resp = NoResponse
    /\ inflight = [r \in Slots |-> Idle]
    /\ key = GoodKey
    /\ ents \in SeedEnts
    /\ view = NoView
    /\ pg = NoTables

NextRegister ==
    \/ \E r \in Slots, e \in FieldEmails, p \in OnePhone \cup {Nil}, x \in TaxIds \cup {Nil} :
         BeginRegisterUser(r, e, p, x)
    \/ \E r \in Slots : EndRegisterUser(r)
    \/ \E e \in FieldEmails, p \in OnePhone : PutUserFieldsMongoose(e, [phone |-> p])

SpecRegister == InitRegister /\ [][NextRegister]_vars

----------------------------------------------------------------------------
(* The Mongo-to-Postgres migration (src/scripts/migrate-mongo-to-pg.js).  *)
(* The source is what the Mongoose revision stored (ents); the target is  *)
(* the tables of pg, each the sequence of its rows.  A run of the script  *)
(* migrates users with their invoices, then stores, customers, suppliers. *)

\* Store.find(): the store and its owner
MongoStores == (StoreId :> [owner |-> "ana@capi.com"])

\* prisma.<model>.findUnique({ where: { id } }): the rows with the id
Find(table, id) == {i \in DOMAIN table : table[i].id = id}

\* the mutant of Upsert: create whether or not the row exists
UpsertCreate(table, row) == Append(table, row)

\* prisma.<model>.upsert({ where: { id }, update: {}, create: row })
Upsert(table, row) ==
    IF Find(table, row.id) # {} THEN table ELSE Append(table, row)

\* the row migrateUsers creates for user u
UserRow(id, u) ==
    [ id |-> id, email |-> u.email, password |-> u.password,
      phone |-> u.phone, taxId |-> u.taxId,
      phoneHash |-> u.phoneHash, taxIdHash |-> u.taxIdHash,
      subscriptionStatus |-> u.subscriptionStatus,
      trialEndsAt |-> u.trialEndsAt, nextBillingAt |-> u.nextBillingAt,
      memberSince |-> u.memberSince ]

\* the row migrateUsers creates for an invoice of the ledger
InvoiceRow(invId, userId, inv) ==
    [id |-> invId, userId |-> userId, date |-> inv.date, method |-> inv.method]

\* the invoices of one user: an invoice whose id is in the table is skipped;
\* one without an id gets `MIG-${Date.now()}-${random}`
RECURSIVE MigrateInvoices(_, _, _, _, _)
MigrateInvoices(table, userId, invoices, t, rnd) ==
    IF invoices = << >> THEN table
    ELSE LET inv   == Head(invoices)
             invId == IF inv.ref # "" THEN inv.ref
                      ELSE "MIG-" \o ToString(t) \o "-" \o ToString(rnd + Len(table))
         IN  MigrateInvoices(
                 IF Find(table, invId) = {}
                 THEN Append(table, InvoiceRow(invId, userId, inv))
                 ELSE table,
                 userId, Tail(invoices), t, rnd)

\* migrateUsers: for each user the upsert, then its invoices
RECURSIVE MigrateUsers(_, _, _, _, _)
MigrateUsers(ids, src, tgt, t, rnd) ==
    IF ids = {} THEN tgt
    ELSE LET id == CHOOSE i \in ids : TRUE
             t1 == [tgt EXCEPT
                      !.user    = Upsert(@, UserRow(id, src[id])),
                      !.invoice = MigrateInvoices(@, id, src[id].invoices, t, rnd)]
         IN  MigrateUsers(ids \ {id}, src, t1, t, rnd)

\* migrateStores: a store whose owner is not in the user table is skipped
RECURSIVE MigrateStores(_, _)
MigrateStores(ids, tgt) ==
    IF ids = {} THEN tgt
    ELSE LET id == CHOOSE i \in ids : TRUE
             t1 == IF Find(tgt.user, MongoStores[id].owner) = {} THEN tgt
                   ELSE [tgt EXCEPT !.store =
                           Upsert(@, [id |-> id, ownerId |-> MongoStores[id].owner])]
         IN  MigrateStores(ids \ {id}, t1)

\* the row migrateCustomers / migrateSuppliers creates
PartyRow(id, item) ==
    [id |-> id, storeId |-> item.storeId, phone |-> item.phone, phoneHash |-> item.phoneHash]

\* migrateCustomers, migrateSuppliers: an item without a store, or whose
\* store is not in the store table, is skipped
RECURSIVE MigrateParties(_, _, _, _)
MigrateParties(kind, ids, src, tgt) ==
    IF ids = {} THEN tgt
    ELSE LET id == CHOOSE i \in ids : TRUE
             t1 == IF Falsy(src[id].storeId) \/ Find(tgt.store, src[id].storeId) = {}
                   THEN tgt
                   ELSE [tgt EXCEPT ![kind] = Upsert(@, PartyRow(id, src[id]))]
         IN  MigrateParties(kind, ids \ {id}, src, t1)

IdsOf(src, kind) == {id \in DOMAIN src : src[id].kind = kind}

\* run(): the migrations in the order of the script
Run(src, tgt, t, rnd) ==
    LET t1 == MigrateUsers(IdsOf(src, "user"), src, tgt, t, rnd)
        t2 == MigrateStores(DOMAIN MongoStores, t1)
        t3 == MigrateParties("customer", IdsOf(src, "customer"), src, t2)
    IN  MigrateParties("supplier", IdsOf(src, "supplier"), src, t3)

\* Math.floor(Math.random() * 1000)
Randoms == {0, 1}

\* node scripts/migrate-mongo-to-pg.js
MigrateMongoToPg ==
    /\ \E rnd \in Randoms : pg' = Run(ents, pg, now, rnd)
    /\ view' = View("migrate", "", 0, "")
    /\ UNCHANGED <<rev, users, now, resp, inflight, key, ents>>

\* POST /api/activate-by-email, on the account with its sensitive fields
ActivateUserByEmail(e) ==
    /\ rev = "mongoose"
    /\ Known(e)
    /\ Len(ents[e].invoices) < MaxInvoices
    /\ ents[e].v < MaxInvoices
    /\ \E iv1 \in IVs, iv2 \in IVs :
         LET save(stored, doc) == SaveFields(stored, doc, key, iv1, iv2)
             out == ActivateByEmailWith(save, ents[e], ents[e], now)
         IN  /\ Put(e, out.user)
             /\ view' = View("activateByEmail", [email |-> e], out.code,
                             IF out.code = 200 THEN toJSON(out.user, key) ELSE out.msg)
    /\ UNCHANGED <<rev, users, now, resp, inflight, key, pg>>

InitMigrate ==
    /\ rev = "mongoose"
    /\ users = << >>
    /\ now = 0
    /\ resp = NoResponse
    /\ inflight = [r \in Slots |-> Idle]
    /\ key = GoodKey
    /\ ents \in SeedEnts
    /\ view = NoView
    /\ pg = NoTables

NextMigrate ==
    \/ Tick
    \/ \E e \in FieldEmails, p \in OnePhone : RegisterUser(e, Senha, p, Nil)
    \/ \E e \in FieldEmails, p \in OnePhone : PutUserFieldsMongoose(e, [phone |-> p])
    \/ \E k \in PartyKinds, p \in OnePhone : CreateParty(k, p)
    \/ \E k \in PartyKinds, p \in OnePhone : UpdateParty(k, p)
    \/ \E e \in FieldEmails : ActivateUserByEmail(e)
    \/ MigrateMongoToPg

SpecMigrate == InitMigrate /\ [][NextMigrate]_vars

----------------------------------------------------------------------------
(* The corrections of trial periods (Mongoose revision): the admin route  *)
(* and the correction script, among registrations, logins, activations    *)
(* and profile updates that move memberSince, which PUT does not block.   *)

TrialBodies == {[memberSince |-> 1]}

InitTrials ==
    /\ rev = "mongoose"
    /\ users \in SeedUsers
    /\ now = 0
    /\ resp = NoResponse
    /\ inflight = [r \in Slots |-> Idle]
    /\ key = GoodKey
    /\ ents = << >>
    /\ view = NoView
    /\ pg = NoTables

NextTrials ==
    \/ Tick
    \/ \E e \in Emails : Register(e, Senha)
    \/ \E e \in Emails : LoginMongoose(e, Senha)
    \/ \E e \in Emails, b \in TrialBodies : PutUserMongoose(e, b)
    \/ \E e \in Emails : ActivateByEmail(e)
    \/ FixTrials
    \/ RunFixTrials

SpecTrials == InitTrials /\ [][NextTrials]_vars

----------------------------------------------------------------------------
(* The saves of documents with sensitive fields (Mongoose revision): the  *)
(* save of a new user, customer or supplier, and the saves of a user      *)
(* loaded from storage that the login and the manual activation make.     *)

\* phones submitted: digits, and a text with a ':' in it
SavePhones == {"11999887766", "(11) 9:00"}

\* the account registered, logged in and activated
SaveEmails == {"ana@capi.com"}

NextSaves ==
    \/ Tick
    \/ \E e \in SaveEmails, p \in SavePhones : RegisterUser(e, Senha, p, Nil)
    \/ \E e \in SaveEmails, pw \in FieldPasswords : LoginUserMongoose(e, pw)
    \/ \E e \in SaveEmails : ActivateUserByEmail(e)
    \/ \E k \in PartyKinds, p \in OnePhone : CreateParty(k, p)

SpecSaves == InitMigrate /\ [][NextSaves]_vars

----------------------------------------------------------------------------
(* Properties *)

\* order / payment ids a delivery carries
ExternalIds == OrderIds \ {""}

\* the number of invoices of a record that carry payment reference o
CountRef(u, o) == Cardinality({i \in DOMAIN u.invoices : u.invoices[i].ref = o})

HasRef(u, o) == CountRef(u, o) > 0

\* the deployed revision takes the event name as an approval
IsApproval(event) ==
    IF rev = "mongoose" THEN event \in ApprovedMongoose ELSE event \in ApprovedPrisma

WebhookOps == {"webhook", "webhook.approved", "webhook.pending", "webhook.failed"}

\* this step is the handling of an approval delivery for account e, payment o
ApprovalDelivered(e, o) ==
    /\ resp'.op \in {"webhook", "webhook.approved"}
    /\ resp'.email = e
    /\ resp'.ref = o
    /\ IsApproval(resp'.arg)

\* this step is the handling of a login for account e
LoginHandled(e) == resp'.op = "login" /\ resp'.email = e

\* the stored credential has the bcrypt prefix
Hashed(s) == StartsWith(s, "$2")

\* the candidate password is the one the stored credential stands for
Matches(candidate, stored) ==
    IF Hashed(stored)
    THEN Len(stored) = BcryptHashLen
         /\ stored = BcryptHash(candidate, SubSeq(stored, 1, BcryptSaltLen))
    ELSE stored = candidate

\* C1: a second delivery of an approval event whose payment id is already in
\* the ledger of the account, the account being ACTIVE, is a success that
\* leaves the account record as it is: no invoice is appended, next-billing
\* is not reset.
C1_DuplicateApprovalIsNoop ==
    [][\A e \in Emails, o \in ExternalIds :
         ( /\ Exists(e)
           /\ users[e].subscriptionStatus = "ACTIVE"
           /\ HasRef(users[e], o)
           /\ ApprovalDelivered(e, o) )
         => /\ resp'.code = 200
            /\ users'[e] = users[e]]_vars

\* C2: the payment references of the invoices of one ledger are pairwise
\* distinct.
C2_PaymentRefsUnique ==
    \A e \in DOMAIN users, o \in ExternalIds : CountRef(users[e], o) <= 1

\* C3: an ACTIVE account has next-billing set and trial-expiry cleared; a
\* TRIAL account has trial-expiry set.
C3_StatusInvariant ==
    \A e \in DOMAIN users :
        /\ users[e].subscriptionStatus = "ACTIVE"
             => users[e].nextBillingAt # Null /\ users[e].trialEndsAt = Null
        /\ users[e].subscriptionStatus = "TRIAL"
             => users[e].trialEndsAt # Null

\* C4: an account that is not ACTIVE becomes ACTIVE only in the handling of
\* an approval delivery of the gateway for that account.
C4_ActiveOnlyByApproval ==
    [][\A e \in Emails :
         ( /\ Exists(e)
           /\ users[e].subscriptionStatus # "ACTIVE"
           /\ users'[e].subscriptionStatus = "ACTIVE" )
         => \E o \in OrderIds : ApprovalDelivered(e, o)]_vars

\* C5: a delivery whose customer email matches no account is answered with
\* an error and changes no account.
C5_UnknownSubjectRejected ==
    [][( /\ resp'.op \in WebhookOps
         /\ resp'.email # ""
         /\ resp'.email \notin DOMAIN users )
       => /\ resp'.code >= 400
          /\ users' = users]_vars

\* C6: a login that completes on an account that is ACTIVE leaves it ACTIVE:
\* the login's write does not replace the status a delivery wrote after the
\* login read the account.
C6_LoginKeepsActive ==
    [][\A r \in Slots :
         ( /\ inflight[r].op = "login"
           /\ inflight'[r] = Idle
           /\ users[inflight[r].email].subscriptionStatus = "ACTIVE" )
         => users'[inflight[r].email].subscriptionStatus = "ACTIVE"]_vars

\* C7: when an approval delivery completes that read the account before
\* another delivery of the same payment wrote it, the account is ACTIVE with
\* exactly one invoice of that payment.
C7_ConcurrentDuplicateOnce ==
    [][\A r \in Slots :
         LET e == inflight[r].email
             o == inflight[r].ref
         IN  ( /\ inflight[r].op = "webhook"
               /\ inflight'[r] = Idle
               /\ IsApproval(inflight[r].arg)
               /\ o \in ExternalIds
               /\ inflight[r].snap.subscriptionStatus # "ACTIVE"
               /\ ~HasRef(inflight[r].snap, o)
               /\ HasRef(users[e], o) )
             => /\ users'[e].subscriptionStatus = "ACTIVE"
                /\ CountRef(users'[e], o) = 1]_vars

\* C8: a login with the matching password on an account whose credential is
\* legacy plaintext succeeds and leaves the credential as the bcrypt hash of
\* that password; a login with the matching password on a hashed credential
\* succeeds and leaves the credential as it is.
C8_LegacyMigratesOnce ==
    [][\A e \in Emails :
         ( /\ Exists(e)
           /\ LoginHandled(e)
           /\ Matches(resp'.arg, users[e].password) )
         => /\ resp'.code = 200
            /\ Hashed(users'[e].password)
            /\ Matches(resp'.arg, users'[e].password)
            /\ Hashed(users[e].password) => users'[e].password = users[e].password]_vars

\* C9: a credential that is written is written in hashed form, and a hashed
\* credential does not become plaintext again.
C9_NeverPlaintext ==
    [][\A e \in DOMAIN users' :
         (e \notin DOMAIN users \/ users'[e].password # users[e].password)
         => Hashed(users'[e].password)]_vars

\* C10: a login with a password that does not match is answered 401 and
\* leaves the account record as it is.
C10_MismatchIsNegative ==
    [][\A e \in Emails :
         ( /\ Exists(e)
           /\ LoginHandled(e)
           /\ ~Matches(resp'.arg, users[e].password) )
         => /\ resp'.code = 401
            /\ users'[e] = users[e]]_vars

\* C11: the failure response of a login is the same for an email no account
\* has and for a known email with a password that does not match: a login
\* of an unknown email followed by a wrong-password login of a known
\* account gives two responses with the same status code and message.
C11_LoginFailuresAlike ==
    [][\A e \in Emails :
         ( /\ resp.op = "login"
           /\ resp.email \notin DOMAIN users
           /\ Exists(e)
           /\ LoginHandled(e)
           /\ ~Matches(resp'.arg, users[e].password) )
         => /\ resp'.code = resp.code
            /\ resp'.msg = resp.msg]_vars

\* this step is the handling of a registration (POST /api/users or
\* POST /api/auth/google-register)
RegistrationHandled == view'.op \in {"register", "googleRegister"}

\* an existing user has the email, or the blind-index hash of the phone or
\* of the tax id, of the registration request
SameIdentity(req) ==
    \E id \in UserIds :
       \/ ents[id].email = req.email
       \/ ~Falsy(req.phone) /\ ents[id].phoneHash = hashField(req.phone)
       \/ ~Falsy(req.taxId) /\ ents[id].taxIdHash = hashField(req.taxId)

\* C12: a registration whose email, phone hash or tax-id hash is that of an
\* existing account is answered with a validation error (400) and creates
\* no account.
C12_DuplicateRegistrationRejected ==
    [][(RegistrationHandled /\ SameIdentity(view'.arg))
         => (view'.code = 400 /\ ents' = ents)]_vars

\* the text has the IV:CIPHERTEXT form encrypt returns: IV_LENGTH bytes of
\* hex, a ':', and one or more whole blocks of hex
IsCiphertext(s) ==
    /\ IndexOf(s, ":") = 2 * IV_LENGTH + 1
    /\ Len(HexDecode(SubSeq(s, 1, 2 * IV_LENGTH))) = IV_LENGTH
    /\ Len(s) > 2 * IV_LENGTH + 1
    /\ (Len(s) - 2 * IV_LENGTH - 1) % (2 * BlockSize) = 0
    /\ 2 * Len(HexDecode(SubSeq(s, 2 * IV_LENGTH + 2, Len(s)))) = Len(s) - 2 * IV_LENGTH - 1

\* the plaintext a stored value stands for: what it decrypts to under the
\* key that encrypted it, or itself when it was never encrypted
PlainOf(s) ==
    IF decrypt(s, GoodKey) # s THEN decrypt(s, GoodKey)
    ELSE IF decrypt(s, OtherKey) # s THEN decrypt(s, OtherKey)
    ELSE s

\* C13: the blind-index hash stored with a sensitive field is hashField of
\* the plaintext the stored value decrypts to, for every stored user,
\* customer and supplier.
C13_BlindIndexOfPlaintext ==
    \A id \in DOMAIN ents : \A f \in SensitiveFields(ents[id].kind) :
       ~Falsy(ents[id][f])
         => ents[id][HashOf(f)] = hashField(PlainOf(ents[id][f]))

\* C14: a non-empty sensitive field held in storage is ciphertext in
\* IV:CIPHERTEXT form, never the plaintext that was submitted.
C14_StoredFieldIsCiphertext ==
    \A id \in DOMAIN ents : \A f \in SensitiveFields(ents[id].kind) :
       ~Falsy(ents[id][f]) => IsCiphertext(ents[id][f])

\* the response carries the representation of an account
AccountReturned ==
    /\ view.op \in {"register", "googleRegister", "login", "putUser"}
    /\ view.code \in {200, 201}

\* C15: an account representation returned to the caller carries neither the
\* password credential nor the blind-index fields phoneHash and taxIdHash.
C15_ViewHidesCredentialAndHashes ==
    AccountReturned => DOMAIN view.data \cap {"password", "phoneHash", "taxIdHash"} = {}

\* the stored value has the IV:CIPHERTEXT form and does not decrypt under
\* the key of the running process
Undecryptable(s) == IsCiphertext(s) /\ decrypt(s, key) = s

\* C16: in the view of an entity returned by a login or a listing, a stored
\* sensitive field of IV:CIPHERTEXT form that cannot be decrypted is null,
\* and the view is returned all the same.
C16_UndecryptableFieldIsNull ==
    /\ (view.op = "login" /\ view.code = 200)
         => \A f \in SensitiveFields("user") :
               Undecryptable(ents[view.arg.email][f]) => view.data[f] = Nil
    /\ (view.op = "listParties")
         => \A id \in DOMAIN view.data :
               Undecryptable(ents[id].phone) => view.data[id].phone = Nil

\* the key of the running process is one createCipheriv accepts
KeyValid == Len(KeyOf(key)) = KeyLength

\* C17: under a valid key, decrypt of what encrypt returned for a non-empty
\* plaintext is that plaintext; encrypt and decrypt return an empty or absent
\* input as it is.
C17_RoundTrip ==
    [][/\ ( /\ view.op = "encrypt"
            /\ ~Falsy(view.arg)
            /\ view.env = key
            /\ KeyValid
            /\ view'.op = "decrypt"
            /\ view'.arg = view.data )
          => view'.data = view.arg
       /\ (view'.op \in {"encrypt", "decrypt"} /\ Falsy(view'.arg))
          => view'.data = view'.arg]_vars

\* C17 witness: under a valid key decrypt was given a ciphertext and
\* returned a non-empty plaintext of the requests
C17_Witness ==
    /\ KeyValid
    /\ view.op = "decrypt"
    /\ IsCiphertext(view.arg)
    /\ view.data \in PlainTexts
    /\ ~Falsy(view.data)

\* the text is not hex throughout
NotHex(s) == 2 * Len(HexDecode(s)) # Len(s)

\* the stored value is legacy data: it has no ':', or it has one and a part
\* before or after it that is not hex
Legacy(s) ==
    /\ ~Falsy(s)
    /\ \/ ~Includes(s, ":")
       \/ NotHex(SubSeq(s, 1, IndexOf(s, ":") - 1))
       \/ NotHex(SubSeq(s, IndexOf(s, ":") + 1, Len(s)))

C19_HashFieldOfNormalized ==
    [][( /\ view.op = "hashField"
         /\ view'.op = "hashField"
         /\ ~Falsy(view.arg)
         /\ ~Falsy(view'.arg)
         /\ Trim(view.arg) = Trim(view'.arg) )
       => view'.data = view.data]_vars

\* C19 witness: hashField was called on an input with surrounding blanks,
\* in a process whose key differs from the one of the call before
C19_Witness ==
    /\ view.op = "hashField"
    /\ ~Falsy(view.arg)
    /\ Trim(view.arg) # view.arg
    /\ view.env # key

\* C20: with a missing or malformed key, encrypt of a non-empty text and
\* decrypt of a stored ciphertext fail; neither returns a value.
C20_BadKeyRefuses ==
    [][( /\ ~KeyValid
         /\ \/ view'.op = "encrypt" /\ ~Falsy(view'.arg)
            \/ view'.op = "decrypt" /\ IsCiphertext(view'.arg) )
       => view'.data = Thrown]_vars

\* C21: a login that succeeds on a TRIAL account leaves it PENDING when the
\* clock is past the trial expiry and leaves it TRIAL when it is not; the
\* passing of time alone leaves a TRIAL account TRIAL.
C21_TrialExpiresOnLogin ==
    [][\A e \in Emails :
         /\ ( /\ Exists(e)
              /\ users[e].subscriptionStatus = "TRIAL"
              /\ users[e].trialEndsAt # Null
              /\ LoginHandled(e)
              /\ resp'.code = 200 )
            => users'[e].subscriptionStatus =
                  IF now > users[e].trialEndsAt THEN "PENDING" ELSE "TRIAL"
         /\ ( /\ Exists(e)
              /\ users[e].subscriptionStatus = "TRIAL"
              /\ now' # now )
            => users'[e].subscriptionStatus = "TRIAL"]_vars

\* C22: a delivery of a payment-pending event for an ACTIVE account leaves it
\* PENDING, and a delivery of a payment failed, canceled or refunded event
\* for an ACTIVE account leaves it CANCELED, whichever revision is deployed.
C22_EventsLeaveActive ==
    [][\A e \in Emails :
         ( /\ Exists(e)
           /\ users[e].subscriptionStatus = "ACTIVE"
           /\ resp'.op \in WebhookOps
           /\ resp'.email = e )
         => /\ resp'.arg \in PendingPrisma
                 => users'[e].subscriptionStatus = "PENDING"
            /\ resp'.arg \in FailedPrisma
                 => users'[e].subscriptionStatus = "CANCELED"]_vars

\* s is t with some elements left out: the elements of s occur in t in the
\* same order
IsSubsequence(s, t) ==
    \E at \in [1 .. Len(s) -> 1 .. Len(t)] :
        /\ \A i, j \in 1 .. Len(s) : i < j => at[i] < at[j]
        /\ \A i \in 1 .. Len(s) : t[at[i]] = s[i]

\* C23: no step removes or changes an invoice of the ledger of an account,
\* and a step that adds one keeps the invoices already there in their order.
C23_LedgerAppendOnly ==
    [][\A e \in DOMAIN users :
         /\ e \in DOMAIN users'
         /\ IsSubsequence(users[e].invoices, users'[e].invoices)]_vars

\* this step is an update request that writes field f of a stored entity
\* with the plaintext the stored value decrypts to
SamePlaintextWritten(id, f) ==
    /\ view'.op = (IF ents[id].kind = "user" THEN "putUser" ELSE "updateParty")
    /\ view'.code = 200
    /\ f \in DOMAIN view'.arg
    /\ f \in SensitiveFields(ents[id].kind)
    /\ IsCiphertext(ents[id][f])
    /\ decrypt(ents[id][f], key) = view'.arg[f]

\* C24: an update that writes a sensitive field with the plaintext its
\* stored value decrypts to leaves the stored ciphertext and the stored
\* blind index as they are.
C24_SamePlaintextIsNoop ==
    [][\A id \in DOMAIN ents : \A f \in {"phone", "taxId"} :
         SamePlaintextWritten(id, f)
           => /\ ents'[id][f] = ents[id][f]
              /\ ents'[id][HashOf(f)] = ents[id][HashOf(f)]]_vars

\* the row of a table with the id
Row(table, id) == table[CHOOSE i \in Find(table, id) : TRUE]

\* no two rows of a table of the target have the same id
NoDuplicateRows(tgt) ==
    \A k \in DOMAIN tgt : \A i, j \in DOMAIN tgt[k] :
       tgt[k][i].id = tgt[k][j].id => i = j

C26_BlindIndexesUnique ==
    \A a \in UserIds, b \in UserIds : \A h \in {"phoneHash", "taxIdHash"} :
       (a # b /\ ~Falsy(ents[a][h])) => ents[a][h] # ents[b][h]

\* C27: the handling of PUT /api/users/:id leaves subscriptionStatus,
\* trialEndsAt, nextBillingAt and invoices of the account as they are, and
\* a request that is refused leaves the whole account record as it is.
C27_PutKeepsSubscription ==
    [][\A e \in Emails :
         ( /\ Exists(e)
           /\ resp'.op = "putUser"
           /\ resp'.email = e )
         => /\ \A f \in BlockedFields : users'[e][f] = users[e][f]
            /\ resp'.code # 200 => users'[e] = users[e]]_vars

\* event names that are a pending or a failed, canceled or refunded payment
StatusEvents == PendingPrisma \cup FailedPrisma

\* C28: the handling of a delivery that is no approval, for an account that
\* exists, changes at most the subscriptionStatus of the account; when the
\* event name is neither a pending nor a failed, canceled or refunded
\* payment, the account record stays as it is and the answer is a success.
C28_StatusEventsFrame ==
    [][\A e \in Emails :
         ( /\ Exists(e)
           /\ resp'.op \in WebhookOps
           /\ resp'.email = e
           /\ resp'.arg # ""
           /\ ~IsApproval(resp'.arg) )
         => /\ users'[e] = [users[e] EXCEPT
                              !.subscriptionStatus = users'[e].subscriptionStatus]
            /\ resp'.arg \notin StatusEvents
                 => users'[e] = users[e] /\ resp'.code = 200]_vars

\* C28 witness: a pending or failed delivery was handled for an account that
\* had been activated: the status is PENDING or CANCELED, next billing is
\* still set and the ledger still holds its invoice.
C28_Witness ==
    /\ resp.op \in WebhookOps
    /\ resp.arg \in StatusEvents
    /\ resp.email \in DOMAIN users
    /\ users[resp.email].subscriptionStatus \in {"PENDING", "CANCELED"}
    /\ users[resp.email].nextBillingAt # Null
    /\ users[resp.email].invoices # << >>

\* this step is a request whose handler saves a user loaded from storage
LoadedSave == view'.op \in {"login", "activateByEmail"}

\* C29: the save of a new user, customer or supplier stores each submitted
\* sensitive field so that one decrypt gives the submitted plaintext, with a
\* blind index that is absent or the hash of that plaintext; the save of a
\* document loaded from storage leaves the stored sensitive fields and their
\* blind indexes as they are.
C29_EncryptedOnce ==
    [][/\ \A id \in DOMAIN ents' \ DOMAIN ents :
            \A f \in SensitiveFields(ents'[id].kind) :
               ~Falsy(view'.arg[f])
                 => /\ decrypt(ents'[id][f], key) = view'.arg[f]
                    /\ ents'[id][HashOf(f)] \in {Nil, hashField(view'.arg[f])}
       /\ LoadedSave
            => \A id \in DOMAIN ents : \A f \in SensitiveFields(ents[id].kind) :
                  /\ ents'[id][f] = ents[id][f]
                  /\ ents'[id][HashOf(f)] = ents[id][HashOf(f)]]_vars

\* C29 witness: the manual activation has saved a user loaded from storage
\* whose stored phone is a ciphertext that one decrypt turns into the phone
\* submitted at registration.
C29_Witness ==
    /\ view.op = "activateByEmail"
    /\ view.code = 200
    /\ view.arg.email \in DOMAIN ents
    /\ ents[view.arg.email].invoices # << >>
    /\ IsCiphertext(ents[view.arg.email].phone)
    /\ decrypt(ents[view.arg.email].phone, key) = "11999887766"
    /\ ents[view.arg.email].phoneHash = hashField("11999887766")


\* C30: a run of the trial correction changes only accounts whose status is
\* TRIAL, leaves each of them with trialEndsAt and nextBillingAt at
\* memberSince + 2 days, changes no account's subscriptionStatus, and leaves
\* nothing for a second run to update.
C30_FixTrialsIdempotent ==
    [][(users' # users /\ resp'.op \in {"fixTrials", "run"})
         => /\ DOMAIN users' = DOMAIN users
            /\ \A e \in DOMAIN users :
                 /\ users'[e].subscriptionStatus = users[e].subscriptionStatus
                 /\ users'[e] # users[e]
                      => /\ users[e].subscriptionStatus = "TRIAL"
                         /\ users'[e].trialEndsAt = users[e].memberSince + TrialDays
                         /\ users'[e].nextBillingAt = users[e].memberSince + TrialDays
            /\ FixTrialsUpdated(users') = 0]_vars

====
